---- MODULE Spec2Model ----
(***************************************************************************)
(* gatsby-plugin-typesense: the onPostBuild reindex protocol of            *)
(* src/gatsby-node.js (alias lookup, synonym carry-over, collection        *)
(* create, per-file extraction and document create, alias upsert, old      *)
(* collection delete) against a Typesense server modelled as collections,  *)
(* documents, synonyms and aliases.                                        *)
(*                                                                         *)
(* Text is a sequence of one-character strings, so that parseInt,          *)
(* parseFloat, toLowerCase, trim, includes and replace are computed.       *)
(* A JavaScript value is a record with one field naming its type:          *)
(* [str |-> text], [int |-> n], [float |-> literal], [bool |-> b],         *)
(* [nan |-> TRUE], [list |-> sequence of values], [undef |-> TRUE].        *)
(***************************************************************************)
EXTENDS Integers, Sequences, FiniteSets, TLC

(***************************************************************************)
(* Text helpers                                                            *)
(***************************************************************************)
WhiteSpace == {" ", "\t", "\n"}

DigitChars == <<"0", "1", "2", "3", "4", "5", "6", "7", "8", "9">>

IsDigit(c) == \E i \in 1..Len(DigitChars) : DigitChars[i] = c

DigitVal(c) == (CHOOSE i \in 1..Len(DigitChars) : DigitChars[i] = c) - 1

UpperChars == <<"A", "B", "C", "D", "E", "F", "G", "H", "I", "J", "K", "L", "M",
                "N", "O", "P", "Q", "R", "S", "T", "U", "V", "W", "X", "Y", "Z">>

LowerChars == <<"a", "b", "c", "d", "e", "f", "g", "h", "i", "j", "k", "l", "m",
                "n", "o", "p", "q", "r", "s", "t", "u", "v", "w", "x", "y", "z">>

\* String.prototype.toLowerCase
ToLowerCase(s) ==
  [i \in 1..Len(s) |->
     IF \E k \in 1..Len(UpperChars) : UpperChars[k] = s[i]
       THEN LowerChars[CHOOSE k \in 1..Len(UpperChars) : UpperChars[k] = s[i]]
       ELSE s[i]]

IsSpace(c) == c \in WhiteSpace

\* the number of leading white space characters of s
SpacePrefixLen(s) ==
  CHOOSE k \in 0..Len(s) :
    /\ \A i \in 1..k : IsSpace(s[i])
    /\ k = Len(s) \/ ~IsSpace(s[k + 1])

\* the number of leading decimal digits of s
DigitPrefixLen(s) ==
  CHOOSE k \in 0..Len(s) :
    /\ \A i \in 1..k : IsDigit(s[i])
    /\ k = Len(s) \/ ~IsDigit(s[k + 1])

Drop(s, k) == SubSeq(s, k + 1, Len(s))

TrimStart(s) == Drop(s, SpacePrefixLen(s))

RECURSIVE Reverse(_)
Reverse(s) == IF s = <<>> THEN <<>> ELSE Append(Reverse(Tail(s)), Head(s))

\* String.prototype.trim
Trim(s) == Reverse(TrimStart(Reverse(TrimStart(s))))

\* String.prototype.includes
Includes(s, sub) ==
  \E i \in 0..(Len(s) - Len(sub)) : SubSeq(s, i + 1, i + Len(sub)) = sub

RECURSIVE ToNat(_)
ToNat(ds) ==
  IF ds = <<>> THEN 0
  ELSE 10 * ToNat(SubSeq(ds, 1, Len(ds) - 1)) + DigitVal(ds[Len(ds)])

IsSign(c) == c \in {"+", "-"}

NaN == [nan |-> TRUE]

StartsNegative(t) == t # <<>> /\ t[1] = "-"

Unsigned(t) == IF t # <<>> /\ IsSign(t[1]) THEN Tail(t) ELSE t

\* the longest run of decimal digits s starts with
DigitsPrefix(s) == SubSeq(s, 1, DigitPrefixLen(s))

SignedNat(neg, ds) == IF neg THEN 0 - ToNat(ds) ELSE ToNat(ds)

IntOfDigits(neg, ds) == IF ds = <<>> THEN NaN ELSE [int |-> SignedNat(neg, ds)]

\* parseInt(text) with no radix: leading white space, an optional sign, the
\* longest run of decimal digits; NaN when that run is empty.  (Texts with
\* a 0x prefix are outside the alphabet used here.)
ParseInt(text) ==
  IntOfDigits(StartsNegative(TrimStart(text)), DigitsPrefix(Unsigned(TrimStart(text))))

HasDot(s) == s # <<>> /\ s[1] = "."

\* the fraction digits of a literal whose integer digits have been read
FracOf(s) == IF HasDot(s) THEN DigitsPrefix(Tail(s)) ELSE <<>>

AfterFrac(s) == IF HasDot(s) THEN Drop(s, 1 + Len(FracOf(s))) ELSE s

ExpValue(neg, ds) == IF ds = <<>> THEN 0 ELSE SignedNat(neg, ds)

\* the exponent part: e or E, an optional sign, at least one digit
ExponentOf(s) ==
  IF s # <<>> /\ s[1] \in {"e", "E"}
    THEN ExpValue(StartsNegative(Tail(s)), DigitsPrefix(Unsigned(Tail(s))))
    ELSE 0

FloatOfParts(neg, int, frac, rest) ==
  IF int = <<>> /\ frac = <<>> THEN NaN
  ELSE [float |-> [neg |-> neg, int |-> int, frac |-> frac, exp |-> ExponentOf(rest)]]

FloatOfInt(neg, int, rest) == FloatOfParts(neg, int, FracOf(rest), AfterFrac(rest))

FloatOfBody(neg, body) ==
  FloatOfInt(neg, DigitsPrefix(body), Drop(body, DigitPrefixLen(body)))

\* parseFloat(text): leading white space, an optional sign, the longest
\* prefix that is a decimal literal (digits, optional fraction, optional
\* exponent); NaN when there is none.  The value is kept as the literal's
\* parts.  (The literal Infinity is outside the alphabet used here.)
ParseFloat(text) ==
  FloatOfBody(StartsNegative(TrimStart(text)), Unsigned(TrimStart(text)))

\* JavaScript truthiness, as used by `value || 10`
Truthy(v) ==
  LET d == DOMAIN v
  IN  IF "undef" \in d \/ "nan" \in d THEN FALSE
      ELSE IF "int" \in d THEN v.int # 0
      ELSE IF "float" \in d
        THEN \E i \in 1..Len(v.float.int \o v.float.frac) :
                (v.float.int \o v.float.frac)[i] # "0"
      ELSE IF "bool" \in d THEN v.bool
      ELSE IF "str" \in d THEN v.str # <<>>
      ELSE TRUE

(***************************************************************************)
(* Document extraction: typeCastValue and the marker loop                  *)
(***************************************************************************)
Undefined == [undef |-> TRUE]

\* a comparison with "false" that forgets toLowerCase
MutTypeCastCaseSensitive(fieldDefinition, attributeValue) ==
  IF Includes(fieldDefinition.type, <<"i", "n", "t">>)
    THEN ParseInt(attributeValue)
  ELSE IF Includes(fieldDefinition.type, <<"f", "l", "o", "a", "t">>)
    THEN ParseFloat(attributeValue)
  ELSE IF Includes(fieldDefinition.type, <<"b", "o", "o", "l">>)
    THEN IF attributeValue = <<"f", "a", "l", "s", "e">>
           THEN [bool |-> FALSE]
         ELSE IF attributeValue = <<"0">>
           THEN [bool |-> FALSE]
         ELSE [bool |-> Trim(attributeValue) # <<>>]
  ELSE [str |-> attributeValue]

typeCastValue(fieldDefinition, attributeValue) ==
  IF Includes(fieldDefinition.type, <<"i", "n", "t">>)
    THEN ParseInt(attributeValue)
  ELSE IF Includes(fieldDefinition.type, <<"f", "l", "o", "a", "t">>)
    THEN ParseFloat(attributeValue)
  ELSE IF Includes(fieldDefinition.type, <<"b", "o", "o", "l">>)
    THEN IF ToLowerCase(attributeValue) = <<"f", "a", "l", "s", "e">>
           THEN [bool |-> FALSE]
         ELSE IF attributeValue = <<"0">>
           THEN [bool |-> FALSE]
         ELSE [bool |-> Trim(attributeValue) # <<>>]
  ELSE [str |-> attributeValue]

\* object property read and write
Get(obj, key) == IF key \in DOMAIN obj THEN obj[key] ELSE Undefined

Put(obj, key, value) == (key :> value) @@ obj

EmptyObject == [k \in {} |-> Undefined]

\* an undeclared field taken for a string field
MutFindFieldDefaultsToString(schema, attributeName) ==
  IF \E i \in 1..Len(schema.fields) : schema.fields[i].name = attributeName
    THEN schema.fields[CHOOSE i \in 1..Len(schema.fields) :
                         /\ schema.fields[i].name = attributeName
                         /\ \A j \in 1..(i - 1) : schema.fields[j].name # attributeName]
    ELSE [name |-> attributeName, type |-> <<"s", "t", "r", "i", "n", "g">>]

\* newCollectionSchema.fields.find(f => f.name === attributeName):
\* the first field of that name, or undefined
FindField(schema, attributeName) ==
  LET hits == {i \in 1..Len(schema.fields) : schema.fields[i].name = attributeName}
  IN  IF hits = {} THEN Undefined
      ELSE schema.fields[CHOOSE i \in hits : \A j \in hits : i <= j]

\* typesenseDocument[attributeName] || []
OrEmptyList(value) == IF Truthy(value) THEN value ELSE [list |-> <<>>]

\* an array field stored like a scalar one: the last element wins
MutStoreFieldOverwrites(doc, fieldDefinition, attributeName, attributeValue) ==
  Put(doc, attributeName, typeCastValue(fieldDefinition, attributeValue))

\* the body of the .each callback for one marker element that names a
\* declared field
StoreField(doc, fieldDefinition, attributeName, attributeValue) ==
  IF Includes(fieldDefinition.type, <<"[", "]">>)
    THEN Put(doc, attributeName,
             [list |-> Append(OrEmptyList(Get(doc, attributeName)).list,
                              typeCastValue(fieldDefinition, attributeValue))])
    ELSE Put(doc, attributeName, typeCastValue(fieldDefinition, attributeValue))

\* the .each loop over the marker elements in document order; reporter.panic
\* at the first marker whose field the schema does not declare
RECURSIVE EachMarker(_, _, _)
EachMarker(markers, schema, doc) ==
  IF markers = <<>> THEN [panic |-> FALSE, doc |-> doc]
  ELSE IF FindField(schema, Head(markers).name) = Undefined
    THEN [panic |-> TRUE, doc |-> doc]
  ELSE EachMarker(Tail(markers), schema,
                  StoreField(doc, FindField(schema, Head(markers).name),
                             Head(markers).name, Head(markers).text))

\* utils.isObjectEmpty
isObjectEmpty(obj) == DOMAIN obj = {}

DefaultPriorityScore == 10

\* typesenseDocument["page_priority_score"] || 10
PriorityScore(doc) ==
  IF Truthy(Get(doc, "page_priority_score"))
    THEN Get(doc, "page_priority_score")
    ELSE [int |-> DefaultPriorityScore]

CompleteDocument(doc, wwwPath) ==
  Put(Put(doc, "page_path", [str |-> wwwPath]), "page_priority_score", PriorityScore(doc))

\* a page without marker elements that is indexed all the same
MutAfterMarkersNeverSkips(r, wwwPath) ==
  IF r.panic THEN [kind |-> "panic"]
  ELSE [kind |-> "submit", doc |-> CompleteDocument(r.doc, wwwPath)]

\* lines 58-67: skip the page without marker elements, else complete the
\* document
AfterMarkers(r, wwwPath) ==
  IF r.panic THEN [kind |-> "panic"]
  ELSE IF isObjectEmpty(r.doc) THEN [kind |-> "skip"]
  ELSE [kind |-> "submit", doc |-> CompleteDocument(r.doc, wwwPath)]

\* indexContentInTypesense up to its first await: panic, skip, or the
\* document to submit
PrepareDocument(fileContents, wwwPath, schema) ==
  AfterMarkers(EachMarker(fileContents, schema, EmptyObject), wwwPath)

\* String.prototype.replace(sub, "") : the first occurrence only
RemoveFirst(s, sub) ==
  IF ~Includes(s, sub) THEN s
  ELSE LET i == CHOOSE i \in 0..(Len(s) - Len(sub)) :
                  /\ SubSeq(s, i + 1, i + Len(sub)) = sub
                  /\ \A j \in 0..(i - 1) : SubSeq(s, j + 1, j + Len(sub)) # sub
       IN  SubSeq(s, 1, i) \o Drop(s, i + Len(sub))

IndexHtml == <<"i", "n", "d", "e", "x", ".", "h", "t", "m", "l">>

\* .replace(/index\.html$/, "")
StripIndexHtml(s) ==
  IF Len(s) >= Len(IndexHtml) /\ Drop(s, Len(s) - Len(IndexHtml)) = IndexHtml
    THEN SubSeq(s, 1, Len(s) - Len(IndexHtml))
    ELSE s

WwwPath(file, rootDir) == StripIndexHtml(RemoveFirst(file, rootDir))

(***************************************************************************)
(* Configuration and inputs                                                *)
(***************************************************************************)
\* the plugin option collectionSchema
collectionSchema ==
  [name   |-> "docs",
   fields |-> << [name |-> "title", type |-> <<"s", "t", "r", "i", "n", "g">>],
                 [name |-> "tags", type |-> <<"s", "t", "r", "i", "n", "g", "[", "]">>],
                 [name |-> "years", type |-> <<"i", "n", "t", "3", "2", "[", "]">>],
                 [name |-> "draft", type |-> <<"b", "o", "o", "l">>],
                 [name |-> "rating", type |-> <<"f", "l", "o", "a", "t">>],
                 [name |-> "page_path", type |-> <<"s", "t", "r", "i", "n", "g">>],
                 [name |-> "page_priority_score", type |-> <<"i", "n", "t", "3", "2">>] >>]

\* the plugin option rootDir (publicDir)
rootDir == <<"/", "p">>

\* the most HTML files a build holds
MaxFiles == 2

\* the path of the i-th HTML file: /p/<i>/index.html or /p/<i>.html
FilePath(i) ==
  rootDir \o <<"/", DigitChars[i + 1]>> \o
  (IF i % 2 = 1 THEN <<"/">> \o IndexHtml ELSE <<".", "h", "t", "m", "l">>)

Marker(name, text) == [name |-> name, text |-> text]

\* the marker elements of the pages a build may hold, in document order
PageContents ==
  { <<>>,
    << Marker("title", <<"H", "i">>) >>,
    << Marker("tags", <<"g", "o">>), Marker("tags", <<"r", "u", "s", "t">>) >>,
    << Marker("title", <<"H", "i">>), Marker("page_priority_score", <<"7">>) >>,
    << Marker("page_priority_score", <<"0">>), Marker("draft", <<"F", "a", "l", "s", "e">>) >>,
    << Marker("rating", <<"4", ".", "5">>), Marker("page_priority_score", <<"x">>) >>,
    << Marker("title", <<"H", "i">>), Marker("author", <<"A", "l">>) >> }

\* utils.getHTMLFilesRecursively: the files found under rootDir, with the
\* text fs.readFile returns for each
FileLists ==
  UNION { { [i \in 1..n |-> [path |-> FilePath(i), contents |-> c[i]]] :
              c \in [1..n -> PageContents] } : n \in 0..MaxFiles }

\* synonym rules a live collection may hold (the second is one-way)
Rule1 == [id |-> "coat-synonyms", synonyms |-> <<"blazer", "coat", "jacket">>]

Rule2 == [id |-> "smart-phone-synonyms", root |-> "smart phone",
          synonyms |-> <<"iphone", "android">>]

SynonymSets == { {}, {Rule1}, {Rule1, Rule2} }

\* synonyms of a collection are kept by id
ById(rules) == [id \in {r.id : r \in rules} |-> CHOOSE r \in rules : r.id = id]

Values(f) == {f[k] : k \in DOMAIN f}

\* the orders in which the server may list a set of rules
Orderings(S) ==
  {q \in [1..Cardinality(S) -> S] : \A i, j \in 1..Cardinality(S) : i # j => q[i] # q[j]}

\* collection names: the schema name with a time stamp
CollectionName(base, stamp) == <<base, stamp>>

\* utils.generateNewCollectionName: `${schema.name}_${Date.now()}`
generateNewCollectionName(schema, now) == CollectionName(schema.name, now)

NoName == <<>>

\* the generation a previous build left behind, and its documents
OldGeneration == CollectionName(collectionSchema.name, 0)

OldDocuments ==
  << CompleteDocument(Put(EmptyObject, "title", [str |-> <<"O", "l", "d">>]), <<"/">>) >>

Runs == {1, 2}

\* the run of the specification Spec
SingleRun == {1}

NoCall == [op |-> "none"]

(***************************************************************************)
(* State                                                                   *)
(***************************************************************************)
VARIABLES
  collections,        \* server: collection name -> [documents, synonyms]
  aliases,            \* server: alias name -> collection name
  htmlFiles,          \* the files utils.getHTMLFilesRecursively found
  clock,              \* Date.now()
  pc,                 \* per run: the statement the run is at
  pending,            \* per run: the server call awaited, or NoCall
  newCollectionName,  \* per run
  oldCollectionName,  \* per run: NoName while undefined
  existingSynonyms,   \* per run: sequence of rules
  fileIndex,          \* per run: position of the for..of loop over htmlFiles
  synonymIndex,       \* per run: position of the loop of upsertSynonyms
  typesenseDocument,  \* per run: the document indexContentInTypesense built
  atBegin,            \* per run: the server's state when the run began
  history             \* per run: calls issued, their outcomes, reporter calls

server == <<collections, aliases>>

runVars == <<pc, pending, newCollectionName, oldCollectionName, existingSynonyms,
             fileIndex, synonymIndex, typesenseDocument>>

vars == <<collections, aliases, htmlFiles, clock, pc, pending, newCollectionName,
          oldCollectionName, existingSynonyms, fileIndex, synonymIndex,
          typesenseDocument, atBegin, history>>

EmptyCollection == [documents |-> <<>>, synonyms |-> ById({})]

Init ==
  /\ htmlFiles \in FileLists
  /\ \E live \in BOOLEAN, S \in SynonymSets :
       /\ ~live => S = {}
       /\ collections =
            IF live
              THEN (OldGeneration :> [documents |-> OldDocuments, synonyms |-> ById(S)])
              ELSE [n \in {} |-> EmptyCollection]
       /\ aliases =
            IF live THEN (collectionSchema.name :> OldGeneration)
                    ELSE [a \in {} |-> NoName]
  /\ clock = 1
  /\ pc = [r \in Runs |-> "start"]
  /\ pending = [r \in Runs |-> NoCall]
  /\ newCollectionName = [r \in Runs |-> NoName]
  /\ oldCollectionName = [r \in Runs |-> NoName]
  /\ existingSynonyms = [r \in Runs |-> <<>>]
  /\ fileIndex = [r \in Runs |-> 0]
  /\ synonymIndex = [r \in Runs |-> 0]
  /\ typesenseDocument = [r \in Runs |-> EmptyObject]
  /\ atBegin = [r \in Runs |-> [collections |-> collections, aliases |-> aliases]]
  /\ history = [r \in Runs |-> <<>>]

(***************************************************************************)
(* Server calls                                                            *)
(***************************************************************************)
CallSites == {"aliasRetrieve", "synonymsRetrieve", "collectionCreate", "documentCreate",
              "synonymUpsert", "aliasUpsert", "collectionDelete"}

Req(op, on, body) == [op |-> op, on |-> on, body |-> body]

\* the call the statement at pc[r] makes
Request(r) ==
  CASE pc[r] = "aliasRetrieve" ->
         Req("aliases.retrieve", collectionSchema.name, <<>>)
    [] pc[r] = "synonymsRetrieve" ->
         Req("synonyms.retrieve", oldCollectionName[r], <<>>)
    [] pc[r] = "collectionCreate" ->
         Req("collections.create", newCollectionName[r], <<>>)
    [] pc[r] = "documentCreate" ->
         Req("documents.create", newCollectionName[r], typesenseDocument[r])
    [] pc[r] = "synonymUpsert" ->
         Req("synonyms.upsert", newCollectionName[r],
             [id       |-> existingSynonyms[r][synonymIndex[r]].id,
              synonyms |-> existingSynonyms[r][synonymIndex[r]].synonyms])
    [] pc[r] = "aliasUpsert" ->
         Req("aliases.upsert", collectionSchema.name, newCollectionName[r])
    [] pc[r] = "collectionDelete" ->
         Req("collections.delete", oldCollectionName[r], <<>>)

\* whether the server can serve the call at all (it may still fail)
CanServe(req) ==
  CASE req.op = "aliases.retrieve"   -> req.on \in DOMAIN aliases
    [] req.op = "synonyms.retrieve"  -> req.on \in DOMAIN collections
    [] req.op = "collections.create" -> req.on \notin DOMAIN collections
    [] req.op = "documents.create"   -> req.on \in DOMAIN collections
    [] req.op = "synonyms.upsert"    -> req.on \in DOMAIN collections
    [] req.op = "aliases.upsert"     -> TRUE
    [] req.op = "collections.delete" -> req.on \in DOMAIN collections

Outcomes(req) == IF CanServe(req) THEN {TRUE, FALSE} ELSE {FALSE}

Event(r, ev, req) == [run |-> r, ev |-> ev, req |-> req, file |-> fileIndex[r]]

Log(r, events) == history' = [history EXCEPT ![r] = @ \o events]

Result(ok) == IF ok THEN "ok" ELSE "failed"

(***************************************************************************)
(* onPostBuild, one action per await                                       *)
(***************************************************************************)
\* lines 125-139: the new collection's name is generated; no old collection
\* and no synonyms are known yet
Begin(r) ==
  /\ pc[r] = "start"
  /\ newCollectionName' =
       [newCollectionName EXCEPT ![r] = generateNewCollectionName(collectionSchema, clock)]
  /\ oldCollectionName' = [oldCollectionName EXCEPT ![r] = NoName]
  /\ existingSynonyms' = [existingSynonyms EXCEPT ![r] = <<>>]
  /\ clock' = clock + 1
  /\ pc' = [pc EXCEPT ![r] = "aliasRetrieve"]
  /\ atBegin' = [atBegin EXCEPT ![r] = [collections |-> collections, aliases |-> aliases]]
  /\ UNCHANGED <<server, htmlFiles, pending, fileIndex, synonymIndex,
                 typesenseDocument, history>>

\* a call sent while the answer to the one before is still awaited
MutIssueWithoutAwait(r) ==
  /\ pc[r] \in CallSites
  /\ pending' = [pending EXCEPT ![r] = Request(r)]
  /\ Log(r, <<Event(r, "call", Request(r))>>)
  /\ UNCHANGED <<atBegin, server, htmlFiles, clock, pc, newCollectionName, oldCollectionName,
                 existingSynonyms, fileIndex, synonymIndex, typesenseDocument>>

\* the run sends the call of the statement it is at and awaits the answer
Issue(r) ==
  /\ pc[r] \in CallSites
  /\ pending[r] = NoCall
  /\ pending' = [pending EXCEPT ![r] = Request(r)]
  /\ Log(r, <<Event(r, "call", Request(r))>>)
  /\ UNCHANGED <<atBegin, server, htmlFiles, clock, pc, newCollectionName, oldCollectionName,
                 existingSynonyms, fileIndex, synonymIndex, typesenseDocument>>

\* line 146: if (oldCollectionName)
AfterAliasRetrieve(ok, name) ==
  IF ok /\ name # NoName THEN "synonymsRetrieve" ELSE "collectionCreate"

\* lines 141-146, 151-153: typesense.aliases(name).retrieve()
AliasRetrieveReturn(r) ==
  /\ pending[r].op = "aliases.retrieve"
  /\ \E ok \in Outcomes(pending[r]) :
       LET name == IF ok THEN aliases[pending[r].on] ELSE NoName
       IN  /\ oldCollectionName' = [oldCollectionName EXCEPT ![r] = name]
           /\ pc' = [pc EXCEPT ![r] = AfterAliasRetrieve(ok, name)]
           /\ Log(r, <<Event(r, Result(ok), pending[r])>>
                  \o (IF ok THEN <<>> ELSE <<Event(r, "warn", pending[r])>>))
  /\ pending' = [pending EXCEPT ![r] = NoCall]
  /\ UNCHANGED <<atBegin, server, htmlFiles, clock, newCollectionName, existingSynonyms,
                 fileIndex, synonymIndex, typesenseDocument>>

\* a getExistingSynonyms whose failure is fatal
MutAfterSynonymsRetrievePanics(r, ok) == IF ok THEN "collectionCreate" ELSE "aborted"

\* lines 95-98, 155: the failure is warned about and [] returned; the run
\* goes on to create the new collection
AfterSynonymsRetrieve(r, ok) == "collectionCreate"

\* lines 91-99, 147-149: getExistingSynonyms; a failure yields []
SynonymsRetrieveReturn(r) ==
  /\ pending[r].op = "synonyms.retrieve"
  /\ \E ok \in Outcomes(pending[r]) :
       /\ IF ok
            THEN \E q \in Orderings(Values(collections[pending[r].on].synonyms)) :
                    existingSynonyms' = [existingSynonyms EXCEPT ![r] = q]
            ELSE existingSynonyms' = [existingSynonyms EXCEPT ![r] = <<>>]
       /\ Log(r, <<Event(r, Result(ok), pending[r])>>
              \o (IF ok THEN <<>> ELSE <<Event(r, "warn", pending[r])>>))
       /\ pc' = [pc EXCEPT ![r] = AfterSynonymsRetrieve(r, ok)]
  /\ pending' = [pending EXCEPT ![r] = NoCall]
  /\ UNCHANGED <<atBegin, server, htmlFiles, clock, newCollectionName, oldCollectionName,
                 fileIndex, synonymIndex, typesenseDocument>>

\* a run that forgets the synonyms it fetched
MutAfterLoopSkipsSynonyms(r) == "aliasUpsert"

\* lines 175-185: after the loop over the files, the synonyms if there are
\* any, then the alias
AfterLoop(r) ==
  IF Len(existingSynonyms[r]) > 0 THEN "synonymUpsert" ELSE "aliasUpsert"

\* a loop that leaves the last file out
MutNextFileStopsEarly(r, i) ==
  IF i <= Len(htmlFiles) - 1 THEN "readFile" ELSE AfterLoop(r)

\* line 162: for (const file of htmlFiles), i the position to go on with
NextFile(r, i) == IF i <= Len(htmlFiles) THEN "readFile" ELSE AfterLoop(r)

\* a failed create that is only reported
MutAfterCollectionCreateContinues(r, ok) == NextFile(r, 1)

\* lines 158-160: reporter.panic ends the run when the create failed
AfterCollectionCreate(r, ok) == IF ok THEN NextFile(r, 1) ELSE "aborted"

\* the loop of upsertSynonyms starts at the first rule
EnterStatement(r, to) ==
  /\ pc' = [pc EXCEPT ![r] = to]
  /\ synonymIndex' = [synonymIndex EXCEPT ![r] = IF to = "synonymUpsert" THEN 1 ELSE @]

\* lines 155-160: typesense.collections().create(newCollectionSchema)
CollectionCreateReturn(r) ==
  /\ pending[r].op = "collections.create"
  /\ \E ok \in Outcomes(pending[r]) :
       /\ collections' =
            IF ok THEN (pending[r].on :> EmptyCollection) @@ collections
                  ELSE collections
       /\ EnterStatement(r, AfterCollectionCreate(r, ok))
       /\ fileIndex' = [fileIndex EXCEPT ![r] =
                         IF AfterCollectionCreate(r, ok) = "aborted" THEN @ ELSE 1]
       /\ Log(r, <<Event(r, Result(ok), pending[r])>>
              \o (IF ok THEN <<>> ELSE <<Event(r, "panic", pending[r])>>))
  /\ pending' = [pending EXCEPT ![r] = NoCall]
  /\ UNCHANGED <<atBegin, aliases, htmlFiles, clock, newCollectionName, oldCollectionName,
                 existingSynonyms, typesenseDocument>>

\* lines 133-134
newCollectionSchema(r) == [collectionSchema EXCEPT !.name = newCollectionName[r]]

\* lines 44-48, 58-63: what follows the marker loop of the file at position i
AfterPrepare(r, kind) ==
  CASE kind = "panic"  -> "aborted"
    [] kind = "skip"   -> NextFile(r, fileIndex[r] + 1)
    [] kind = "submit" -> "documentCreate"

\* lines 166-172, 34-67: what indexContentInTypesense does with the document
\* prepared from the file, up to its await
IndexContent(r, p) ==
  /\ EnterStatement(r, AfterPrepare(r, p.kind))
  /\ Log(r, IF p.kind = "panic" THEN <<Event(r, "panic", NoCall)>>
         ELSE IF p.kind = "skip" THEN <<Event(r, "warn", NoCall)>>
         ELSE <<>>)
  /\ fileIndex' = [fileIndex EXCEPT ![r] =
                    IF AfterPrepare(r, p.kind) \in {"aborted", "documentCreate"}
                      THEN @ ELSE @ + 1]
  /\ typesenseDocument' =
       [typesenseDocument EXCEPT ![r] = IF p.kind = "submit" THEN p.doc ELSE @]

\* lines 163-166: the file is read and handed to indexContentInTypesense; a
\* rejected fs.readFile rejects onPostBuild
ReadFile(r) ==
  /\ pc[r] = "readFile"
  /\ \/ /\ EnterStatement(r, "aborted")
        /\ Log(r, <<Event(r, "reject", NoCall)>>)
        /\ UNCHANGED <<fileIndex, typesenseDocument>>
     \/ IndexContent(r, PrepareDocument(htmlFiles[fileIndex[r]].contents,
                                        WwwPath(htmlFiles[fileIndex[r]].path, rootDir),
                                        newCollectionSchema(r)))
  /\ UNCHANGED <<atBegin, server, htmlFiles, clock, pending, newCollectionName,
                 oldCollectionName, existingSynonyms>>

\* a failed document create that is only reported
MutAfterDocumentCreateContinues(r, ok) == NextFile(r, fileIndex[r] + 1)

\* lines 84-87: reporter.panic ends the run when the create failed
AfterDocumentCreate(r, ok) == IF ok THEN NextFile(r, fileIndex[r] + 1) ELSE "aborted"

\* lines 78-87: typesense.collections(name).documents().create(document)
DocumentCreateReturn(r) ==
  /\ pending[r].op = "documents.create"
  /\ \E ok \in Outcomes(pending[r]) :
       /\ collections' =
            IF ok THEN [collections EXCEPT ![pending[r].on].documents =
                                             Append(@, pending[r].body)]
                  ELSE collections
       /\ EnterStatement(r, AfterDocumentCreate(r, ok))
       /\ fileIndex' = [fileIndex EXCEPT ![r] =
                         IF AfterDocumentCreate(r, ok) = "aborted" THEN @ ELSE @ + 1]
       /\ Log(r, <<Event(r, Result(ok), pending[r])>>
              \o (IF ok THEN <<>> ELSE <<Event(r, "panic", pending[r])>>))
  /\ pending' = [pending EXCEPT ![r] = NoCall]
  /\ UNCHANGED <<atBegin, aliases, htmlFiles, clock, newCollectionName, oldCollectionName,
                 existingSynonyms, typesenseDocument>>

\* line 103: for (const synonym of synonyms), i the position to go on with
NextSynonym(r, i) ==
  IF i <= Len(existingSynonyms[r]) THEN "synonymUpsert" ELSE "aliasUpsert"

\* an upsert without its own try/catch: the failure leaves the loop for the
\* catch of lines 181-183
MutAfterSynonymUpsertLeavesLoop(r, ok) ==
  IF ok THEN NextSynonym(r, synonymIndex[r] + 1) ELSE "aliasUpsert"

\* lines 104-110: the failure is warned about inside the loop, which goes on
\* with the next rule
AfterSynonymUpsert(r, ok) == NextSynonym(r, synonymIndex[r] + 1)

\* lines 102-112: synonyms().upsert(synonym.id, {synonyms: synonym.synonyms})
SynonymUpsertReturn(r) ==
  /\ pending[r].op = "synonyms.upsert"
  /\ \E ok \in Outcomes(pending[r]) :
       /\ collections' =
            IF ok THEN [collections EXCEPT ![pending[r].on].synonyms =
                                             (pending[r].body.id :> pending[r].body) @@ @]
                  ELSE collections
       /\ Log(r, <<Event(r, Result(ok), pending[r])>>
              \o (IF ok THEN <<>> ELSE <<Event(r, "warn", pending[r])>>))
       /\ pc' = [pc EXCEPT ![r] = AfterSynonymUpsert(r, ok)]
  /\ synonymIndex' = [synonymIndex EXCEPT ![r] = @ + 1]
  /\ pending' = [pending EXCEPT ![r] = NoCall]
  /\ UNCHANGED <<atBegin, aliases, htmlFiles, clock, newCollectionName, oldCollectionName,
                 existingSynonyms, fileIndex, typesenseDocument>>

\* a run that never deletes the old collection
MutAfterAliasUpsertKeepsOld(r, ok) == "done"

\* a failed alias upsert that is tried again
MutAfterAliasUpsertRetries(r, ok) ==
  IF ~ok THEN "aliasUpsert"
  ELSE IF oldCollectionName[r] # NoName THEN "collectionDelete" ELSE "done"

\* a delete that does not ask whether an old collection is known
MutAfterAliasUpsertAlwaysDeletes(r, ok) == "collectionDelete"

\* a failed alias upsert that panics instead of being reported
MutAfterAliasUpsertPanics(r, ok) ==
  IF ~ok THEN "aborted"
  ELSE IF oldCollectionName[r] # NoName THEN "collectionDelete" ELSE "done"

\* lines 193-197: the failure is reported; then if (oldCollectionName)
AfterAliasUpsert(r, ok) ==
  IF oldCollectionName[r] # NoName THEN "collectionDelete" ELSE "done"

\* lines 187-195: typesense.aliases().upsert(name, {collection_name})
AliasUpsertReturn(r) ==
  /\ pending[r].op = "aliases.upsert"
  /\ \E ok \in Outcomes(pending[r]) :
       /\ aliases' = IF ok THEN (pending[r].on :> pending[r].body) @@ aliases
                           ELSE aliases
       /\ pc' = [pc EXCEPT ![r] = AfterAliasUpsert(r, ok)]
       /\ Log(r, <<Event(r, Result(ok), pending[r])>>
              \o (IF ok THEN <<>> ELSE <<Event(r, "error", pending[r])>>))
  /\ pending' = [pending EXCEPT ![r] = NoCall]
  /\ UNCHANGED <<atBegin, collections, htmlFiles, clock, newCollectionName, oldCollectionName,
                 existingSynonyms, fileIndex, synonymIndex, typesenseDocument>>

\* a delete step that removes every collection but the run's own
MutCollectionDeleteSweeps(r) ==
  /\ pending[r].op = "collections.delete"
  /\ \E ok \in Outcomes(pending[r]) :
       /\ collections' =
            IF ok THEN [n \in DOMAIN collections \cap {newCollectionName[r]} |-> collections[n]]
                  ELSE collections
       /\ Log(r, <<Event(r, Result(ok), pending[r])>>
              \o (IF ok THEN <<>> ELSE <<Event(r, "error", pending[r])>>))
  /\ pc' = [pc EXCEPT ![r] = "done"]
  /\ pending' = [pending EXCEPT ![r] = NoCall]
  /\ UNCHANGED <<atBegin, aliases, htmlFiles, clock, newCollectionName, oldCollectionName,
                 existingSynonyms, fileIndex, synonymIndex, typesenseDocument>>

\* lines 197-208: typesense.collections(oldCollectionName).delete(); the
\* failure is reported and onPostBuild returns
CollectionDeleteReturn(r) ==
  /\ pending[r].op = "collections.delete"
  /\ \E ok \in Outcomes(pending[r]) :
       /\ collections' =
            IF ok THEN [n \in DOMAIN collections \ {pending[r].on} |-> collections[n]]
                  ELSE collections
       /\ Log(r, <<Event(r, Result(ok), pending[r])>>
              \o (IF ok THEN <<>> ELSE <<Event(r, "error", pending[r])>>))
  /\ pc' = [pc EXCEPT ![r] = "done"]
  /\ pending' = [pending EXCEPT ![r] = NoCall]
  /\ UNCHANGED <<atBegin, aliases, htmlFiles, clock, newCollectionName, oldCollectionName,
                 existingSynonyms, fileIndex, synonymIndex, typesenseDocument>>

Step(r) ==
  \/ Begin(r)
  \/ Issue(r)
  \/ AliasRetrieveReturn(r)
  \/ SynonymsRetrieveReturn(r)
  \/ CollectionCreateReturn(r)
  \/ ReadFile(r)
  \/ DocumentCreateReturn(r)
  \/ SynonymUpsertReturn(r)
  \/ AliasUpsertReturn(r)
  \/ CollectionDeleteReturn(r)

\* one build: a single run of onPostBuild
Next == \E r \in SingleRun : Step(r)

Spec == Init /\ [][Next]_vars

(***************************************************************************)
(* indexContentInTypesense on one page, over all small pages               *)
(***************************************************************************)
\* the most marker elements of a page
MaxMarkers == 3

\* the longest text of a boolean marker element
MaxTextLen == 5

SeqsUpTo(S, n) == UNION { [1..k -> S] : k \in 0..n }

MarkerNames == {"title", "tags", "years", "page_priority_score", "author"}

MarkerTexts == { <<>>, <<"7">>, <<"g", "o">> }

BoolAlphabet == {"f", "a", "l", "s", "e", "F", "0", " "}

\* pages of up to MaxMarkers marker elements, and pages whose one marker
\* element is the boolean field draft with any text up to MaxTextLen
ExtractPages ==
  SeqsUpTo({Marker(n, t) : n \in MarkerNames, t \in MarkerTexts}, MaxMarkers)
    \cup { <<Marker("draft", t)>> : t \in SeqsUpTo(BoolAlphabet, MaxTextLen) }

\* a first build about to read its only file: the alias lookup has failed
\* and the new collection has been created
InitExtract ==
  /\ \E c \in ExtractPages : htmlFiles = << [path |-> FilePath(1), contents |-> c] >>
  /\ collections = (generateNewCollectionName(collectionSchema, 1) :> EmptyCollection)
  /\ aliases = [a \in {} |-> NoName]
  /\ clock = 2
  /\ pc = [r \in Runs |-> IF r \in SingleRun THEN "readFile" ELSE "start"]
  /\ pending = [r \in Runs |-> NoCall]
  /\ newCollectionName =
       [r \in Runs |-> IF r \in SingleRun
                         THEN generateNewCollectionName(collectionSchema, 1) ELSE NoName]
  /\ oldCollectionName = [r \in Runs |-> NoName]
  /\ existingSynonyms = [r \in Runs |-> <<>>]
  /\ fileIndex = [r \in Runs |-> IF r \in SingleRun THEN 1 ELSE 0]
  /\ synonymIndex = [r \in Runs |-> 0]
  /\ typesenseDocument = [r \in Runs |-> EmptyObject]
  /\ atBegin = [r \in Runs |-> [collections |-> [n \in {} |-> EmptyCollection],
                                 aliases |-> [a \in {} |-> NoName]]]
  /\ history =
       [r \in Runs |->
          IF r \in SingleRun
            THEN << [run |-> r, ev |-> "call", file |-> 0,
                     req |-> Req("aliases.retrieve", collectionSchema.name, <<>>)],
                    [run |-> r, ev |-> "failed", file |-> 0,
                     req |-> Req("aliases.retrieve", collectionSchema.name, <<>>)],
                    [run |-> r, ev |-> "warn", file |-> 0,
                     req |-> Req("aliases.retrieve", collectionSchema.name, <<>>)],
                    [run |-> r, ev |-> "call", file |-> 0,
                     req |-> Req("collections.create",
                                 generateNewCollectionName(collectionSchema, 1), <<>>)],
                    [run |-> r, ev |-> "ok", file |-> 0,
                     req |-> Req("collections.create",
                                 generateNewCollectionName(collectionSchema, 1), <<>>)] >>
            ELSE <<>>]

NextExtract == \E r \in SingleRun : ReadFile(r)

SpecExtract == InitExtract /\ [][NextExtract]_vars

(***************************************************************************)
(* Two builds of the same site at once: two runs of onPostBuild against    *)
(* one server, their awaits interleaved in any way                         *)
(***************************************************************************)
MaxConcurrentFiles == 1

\* a page without marker elements and a page with one
ConcurrentPages == { <<>>, << Marker("title", <<"H", "i">>) >> }

ConcurrentFileLists ==
  UNION { { [i \in 1..n |-> [path |-> FilePath(i), contents |-> c[i]]] :
              c \in [1..n -> ConcurrentPages] } : n \in 0..MaxConcurrentFiles }

\* the alias names a generation that holds one synonym rule, or there is no
\* alias yet
InitConcurrent ==
  /\ htmlFiles \in ConcurrentFileLists
  /\ \E live \in BOOLEAN :
       /\ collections =
            IF live
              THEN (OldGeneration :> [documents |-> OldDocuments, synonyms |-> ById({Rule1})])
              ELSE [n \in {} |-> EmptyCollection]
       /\ aliases =
            IF live THEN (collectionSchema.name :> OldGeneration)
                    ELSE [a \in {} |-> NoName]
  /\ clock = 1
  /\ pc = [r \in Runs |-> "start"]
  /\ pending = [r \in Runs |-> NoCall]
  /\ newCollectionName = [r \in Runs |-> NoName]
  /\ oldCollectionName = [r \in Runs |-> NoName]
  /\ existingSynonyms = [r \in Runs |-> <<>>]
  /\ fileIndex = [r \in Runs |-> 0]
  /\ synonymIndex = [r \in Runs |-> 0]
  /\ typesenseDocument = [r \in Runs |-> EmptyObject]
  /\ atBegin = [r \in Runs |-> [collections |-> collections, aliases |-> aliases]]
  /\ history = [r \in Runs |-> <<>>]

NextConcurrent == \E r \in Runs : Step(r)

SpecConcurrent == InitConcurrent /\ [][NextConcurrent]_vars

(***************************************************************************)
(* One build whose awaits all settle: the event loop resumes onPostBuild   *)
(* once the promise it awaits is resolved or rejected, and every call to   *)
(* the server is answered, with success or with a failure                  *)
(***************************************************************************)
Fairness == \A r \in SingleRun : WF_vars(Step(r))

SpecFair == Init /\ [][Next]_vars /\ Fairness

(***************************************************************************)
(* Builds one after the other: the second run of onPostBuild begins when   *)
(* the first has returned or was aborted, and the server answers every     *)
(* call it can serve with success                                          *)
(***************************************************************************)
\* the runs before r are over
Turn(r) == \A q \in Runs : q < r => pc[q] \in {"done", "aborted"}

\* the only calls that failed are alias lookups made when there was no alias
CallsSucceed ==
  \A r \in Runs : \A i \in DOMAIN history[r] :
    history[r][i].ev = "failed" =>
      /\ history[r][i].req.op = "aliases.retrieve"
      /\ collectionSchema.name \notin DOMAIN atBegin[r].aliases

NextSerial == \E r \in Runs : Turn(r) /\ Step(r) /\ CallsSucceed'

SpecSerial == Init /\ [][NextSerial]_vars

(***************************************************************************)
(* Properties                                                              *)
(***************************************************************************)
Is(e, r, ev, op) == e.run = r /\ e.ev = ev /\ e.req.op = op

Happened(r, ev, op) == \E i \in DOMAIN history[r] : Is(history[r][i], r, ev, op)

Called(r, op) == Happened(r, "call", op)

AfterBegin(r) == pc[r] # "start"

\* the file at position k was handled by run r: a document made of it is
\* among the documents of the new collection, or it had no marker element
FileDone(r, k) ==
  \/ htmlFiles[k].contents = <<>>
  \/ \E i \in DOMAIN history[r] :
       /\ Is(history[r][i], r, "ok", "documents.create")
       /\ history[r][i].file = k
       /\ history[r][i].req.body["page_path"] = [str |-> WwwPath(htmlFiles[k].path, rootDir)]
       /\ \E d \in DOMAIN collections[newCollectionName[r]].documents :
             collections[newCollectionName[r]].documents[d] = history[r][i].req.body

Populated(r) ==
  /\ newCollectionName[r] \in DOMAIN collections
  /\ fileIndex[r] = Len(htmlFiles) + 1
  /\ \A k \in DOMAIN htmlFiles : FileDone(r, k)

\* C1: the old generation is deleted only after the alias has been
\* repointed to the new generation with success; when the alias upsert
\* fails the old generation is kept, and the alias never names a collection
\* that does not exist.
C1_OldDeletedOnlyAfterSwap ==
  /\ \A r \in Runs :
       (oldCollectionName[r] # NoName /\ oldCollectionName[r] \notin DOMAIN collections)
         => Happened(r, "ok", "aliases.upsert")
  /\ \A a \in DOMAIN aliases : aliases[a] \in DOMAIN collections

\* C2: the alias upsert is issued only when every discovered file has been
\* handled (document created, or skipped for want of markers); at every
\* state the alias names the collection it named when the run began or the
\* run's new collection, and the latter only when it is fully populated.
C2_AliasOnlyAfterPopulation ==
  \A r \in Runs :
    /\ Called(r, "aliases.upsert") => Populated(r)
    /\ AfterBegin(r) =>
         \A a \in DOMAIN aliases :
           \/ a \in DOMAIN atBegin[r].aliases /\ aliases[a] = atBegin[r].aliases[a]
           \/ aliases[a] = newCollectionName[r] /\ Populated(r)

\* a run repointed the alias to a collection holding a document per file
C2_Witness ==
  \E r \in Runs :
    /\ Len(htmlFiles) >= 2
    /\ collectionSchema.name \in DOMAIN aliases
    /\ aliases[collectionSchema.name] = newCollectionName[r]
    /\ newCollectionName[r] \in DOMAIN collections
    /\ Len(collections[newCollectionName[r]].documents) = Len(htmlFiles)

\* C3: after a failed collection create the run has ended, it has issued no
\* document create, synonym upsert, alias upsert or collection delete, and
\* the server's collections and aliases are as they were when the run began.
C3_CreateFailureAborts ==
  \A r \in Runs :
    Happened(r, "failed", "collections.create") =>
      /\ pc[r] = "aborted"
      /\ pending[r] = NoCall
      /\ ~Called(r, "documents.create")
      /\ ~Called(r, "synonyms.upsert")
      /\ ~Called(r, "aliases.upsert")
      /\ ~Called(r, "collections.delete")
      /\ collections = atBegin[r].collections
      /\ aliases = atBegin[r].aliases

\* the create failed in a build with files, a live alias and synonyms to
\* carry over
C3_Witness ==
  \E r \in Runs :
    /\ Happened(r, "failed", "collections.create")
    /\ Len(htmlFiles) >= 1
    /\ Len(existingSynonyms[r]) >= 1
    /\ oldCollectionName[r] = OldGeneration

\* the rules the old collection of run r held when the run began
SynonymsAtBegin(r) ==
  IF oldCollectionName[r] \in DOMAIN atBegin[r].collections
    THEN Values(atBegin[r].collections[oldCollectionName[r]].synonyms)
    ELSE {}

\* a rule's id and term list
Terms(rule) == [id |-> rule.id, synonyms |-> rule.synonyms]

UpsertSucceeded(r, id) ==
  \E i \in DOMAIN history[r] :
    Is(history[r][i], r, "ok", "synonyms.upsert") /\ history[r][i].req.body.id = id

UpsertReturned(r, id) ==
  \E i \in DOMAIN history[r] :
    /\ history[r][i].run = r
    /\ history[r][i].ev \in {"ok", "failed"}
    /\ history[r][i].req.op = "synonyms.upsert"
    /\ history[r][i].req.body.id = id

\* no call of run r failed and the run was not ended early
NoFailure(r) ==
  \A i \in DOMAIN history[r] :
    history[r][i].run = r => history[r][i].ev \notin {"failed", "panic", "reject"}

\* C4: the new generation holds, by id and term list, exactly the rules of
\* the old generation whose upsert succeeded; all of them when the run
\* finished without a failing call; and every rule's upsert has returned
\* before the alias upsert is issued.
C4_SynonymsCarriedOver ==
  \A r \in Runs :
    /\ newCollectionName[r] \in DOMAIN collections =>
         {Terms(x) : x \in Values(collections[newCollectionName[r]].synonyms)} =
         {Terms(x) : x \in {y \in SynonymsAtBegin(r) : UpsertSucceeded(r, y.id)}}
    /\ Called(r, "aliases.upsert") =>
         \A k \in DOMAIN existingSynonyms[r] : UpsertReturned(r, existingSynonyms[r][k].id)
    /\ (pc[r] = "done" /\ NoFailure(r) /\ oldCollectionName[r] # NoName) =>
         \A x \in SynonymsAtBegin(r) :
           /\ x.id \in DOMAIN collections[newCollectionName[r]].synonyms
           /\ collections[newCollectionName[r]].synonyms[x.id].synonyms = x.synonyms

\* a run without failures carried two rules over and repointed the alias
C4_Witness ==
  \E r \in Runs :
    /\ pc[r] = "done"
    /\ NoFailure(r)
    /\ SynonymsAtBegin(r) = {Rule1, Rule2}
    /\ aliases[collectionSchema.name] = newCollectionName[r]
    /\ Cardinality(DOMAIN collections[newCollectionName[r]].synonyms) = 2

\* C5: after a failed alias lookup the run knows no old collection, never
\* retrieves synonyms and never issues a collection delete; the lookup does
\* not end the run; a run that finished created and populated the new
\* collection and ended with the alias upsert.
C5_NoAliasNoDelete ==
  \A r \in Runs :
    Happened(r, "failed", "aliases.retrieve") =>
      /\ oldCollectionName[r] = NoName
      /\ ~Called(r, "synonyms.retrieve")
      /\ ~Called(r, "collections.delete")
      /\ pc[r] = "aborted" =>
           /\ history[r][Len(history[r])].ev \in {"panic", "reject"}
           /\ history[r][Len(history[r])].req.op # "aliases.retrieve"
      /\ pc[r] = "done" =>
           /\ Happened(r, "ok", "collections.create")
           /\ Populated(r)
           /\ history[r][Len(history[r])].req.op = "aliases.upsert"

\* a first build: no alias existed, the run indexed a page and repointed
\* the alias
C5_Witness ==
  \E r \in Runs :
    /\ DOMAIN atBegin[r].aliases = {}
    /\ pc[r] = "done"
    /\ Len(htmlFiles) >= 1
    /\ collectionSchema.name \in DOMAIN aliases
    /\ aliases[collectionSchema.name] = newCollectionName[r]
    /\ Len(collections[newCollectionName[r]].documents) >= 1

Declared(name) ==
  \E i \in DOMAIN collectionSchema.fields : collectionSchema.fields[i].name = name

HasUndeclared(contents) == \E i \in DOMAIN contents : ~Declared(contents[i].name)

\* C6: a file with a marker naming an undeclared field is never gone past
\* and never submitted, the run ends at it, and the run issues no alias
\* upsert and no collection delete; every document submitted holds declared
\* fields only, besides page_path and page_priority_score.
C6_UndeclaredFieldAborts ==
  \A r \in Runs :
    /\ \A k \in DOMAIN htmlFiles :
         HasUndeclared(htmlFiles[k].contents) =>
           /\ fileIndex[r] <= k
           /\ fileIndex[r] = k => pc[r] \in {"readFile", "aborted"}
           /\ ~Called(r, "aliases.upsert")
           /\ ~Called(r, "collections.delete")
           /\ \A i \in DOMAIN history[r] :
                Is(history[r][i], r, "call", "documents.create") => history[r][i].file # k
    /\ \A i \in DOMAIN history[r] :
         Is(history[r][i], r, "call", "documents.create") =>
           \A f \in DOMAIN history[r][i].req.body :
             f \in {"page_path", "page_priority_score"} \/ Declared(f)

\* the second file named an undeclared field after the first was indexed
C6_Witness ==
  \E r \in Runs :
    /\ pc[r] = "aborted"
    /\ fileIndex[r] = 2
    /\ HasUndeclared(htmlFiles[2].contents)
    /\ Happened(r, "ok", "documents.create")
    /\ history[r][Len(history[r])].ev = "panic"
    /\ history[r][Len(history[r])].req = NoCall

\* C7: after a failed document create the run has ended: it issues nothing
\* more, it has issued no synonym upsert, alias upsert or collection
\* delete, and the aliases and the collections that existed when the run
\* began are as they were.
C7_DocumentFailureAborts ==
  \A r \in Runs :
    \A i \in DOMAIN history[r] :
      Is(history[r][i], r, "failed", "documents.create") =>
        /\ pc[r] = "aborted"
        /\ pending[r] = NoCall
        /\ \A j \in DOMAIN history[r] :
             (j > i /\ history[r][j].run = r) => history[r][j].ev = "panic"
        /\ ~Called(r, "synonyms.upsert")
        /\ ~Called(r, "aliases.upsert")
        /\ ~Called(r, "collections.delete")
        /\ aliases = atBegin[r].aliases
        /\ \A n \in DOMAIN atBegin[r].collections :
             n \in DOMAIN collections /\ collections[n] = atBegin[r].collections[n]

\* the second document's create failed, with an old generation and
\* synonyms waiting to be carried over
C7_Witness ==
  \E r \in Runs :
    /\ Happened(r, "failed", "documents.create")
    /\ Happened(r, "ok", "documents.create")
    /\ fileIndex[r] = 2
    /\ Len(existingSynonyms[r]) >= 1
    /\ aliases[collectionSchema.name] = OldGeneration

\* C8: after a failed alias upsert the failure is reported as an error, the
\* run is not ended early (it is at the delete of the old collection or has
\* returned), and the new collection is still there with every document
\* and every synonym written to it; the run never deletes it.
C8_AliasFailureNoRollback ==
  \A r \in Runs :
    \A i \in DOMAIN history[r] :
      Is(history[r][i], r, "failed", "aliases.upsert") =>
        /\ pc[r] \in {"collectionDelete", "done"}
        /\ pc[r] = "collectionDelete" => oldCollectionName[r] # NoName
        /\ i < Len(history[r])
        /\ history[r][i + 1].ev = "error"
        /\ history[r][i + 1].req = history[r][i].req
        /\ \A j \in DOMAIN history[r] :
             history[r][j].run = r => history[r][j].ev \notin {"panic", "reject"}
        /\ Populated(r)
        /\ \A j \in DOMAIN history[r] :
             Is(history[r][j], r, "ok", "synonyms.upsert") =>
               /\ history[r][j].req.body.id \in DOMAIN collections[newCollectionName[r]].synonyms
               /\ collections[newCollectionName[r]].synonyms[history[r][j].req.body.id]
                    = history[r][j].req.body
        /\ \A j \in DOMAIN history[r] :
             Is(history[r][j], r, "call", "collections.delete") =>
               history[r][j].req.on # newCollectionName[r]

\* the alias upsert failed and the run returned, leaving a new collection
\* with a document and a synonym
C8_Witness ==
  \E r \in Runs :
    /\ Happened(r, "failed", "aliases.upsert")
    /\ pc[r] = "done"
    /\ Len(collections[newCollectionName[r]].documents) >= 1
    /\ DOMAIN collections[newCollectionName[r]].synonyms # {}

\* the skip warning of the file at position k
Skipped(r, k) ==
  \E i \in DOMAIN history[r] :
    /\ history[r][i].run = r
    /\ history[r][i].ev = "warn"
    /\ history[r][i].req = NoCall
    /\ history[r][i].file = k

Submitted(r, k) ==
  \E i \in DOMAIN history[r] :
    Is(history[r][i], r, "call", "documents.create") /\ history[r][i].file = k

\* the document of the file at position k is built and its create is the
\* run's next statement
Submitting(r, k) == fileIndex[r] = k /\ pc[r] = "documentCreate"

\* the run ended at the file at position k with a panic of the marker loop
FatalAt(r, k) ==
  /\ pc[r] = "aborted"
  /\ fileIndex[r] = k
  /\ \E i \in DOMAIN history[r] :
       /\ history[r][i].run = r
       /\ history[r][i].ev = "panic"
       /\ history[r][i].req = NoCall
       /\ history[r][i].file = k

Rejected(r) == \E i \in DOMAIN history[r] : history[r][i].run = r /\ history[r][i].ev = "reject"

\* the file at position k was read and handed to indexContentInTypesense
WasRead(r, k) ==
  \/ fileIndex[r] > k
  \/ /\ fileIndex[r] = k
     /\ pc[r] = "documentCreate" \/ (pc[r] = "aborted" /\ ~Rejected(r))

\* C9: a file that was read is skipped exactly when it has no marker
\* element; a skipped file is warned about, no document create is issued
\* for it and the loop goes on to the next file; a file with a marker
\* element has a document create issued or ends the run; no document
\* submitted holds page_path and page_priority_score only.
C9_SkipIffNoMarkers ==
  \A r \in Runs :
    /\ \A k \in DOMAIN htmlFiles :
         /\ Skipped(r, k) <=> (WasRead(r, k) /\ htmlFiles[k].contents = <<>>)
         /\ Skipped(r, k) => (~Submitted(r, k) /\ fileIndex[r] > k)
         /\ (WasRead(r, k) /\ htmlFiles[k].contents # <<>>) =>
              (Submitted(r, k) \/ Submitting(r, k) \/ FatalAt(r, k))
    /\ \A i \in DOMAIN history[r] :
         Is(history[r][i], r, "call", "documents.create") =>
           /\ htmlFiles[history[r][i].file].contents # <<>>
           /\ \E f \in DOMAIN history[r][i].req.body :
                \E m \in DOMAIN htmlFiles[history[r][i].file].contents :
                  htmlFiles[history[r][i].file].contents[m].name = f

\* the first file was skipped and the second one submitted
C9_Witness ==
  \E r \in Runs :
    /\ Len(htmlFiles) >= 2
    /\ Skipped(r, 1)
    /\ htmlFiles[1].contents = <<>>
    /\ Submitted(r, 2)

PriorityMarkers(contents) ==
  {i \in DOMAIN contents : contents[i].name = "page_priority_score"}

\* the coerced text of the page's last page_priority_score marker, or 10
DeclaredPriorityScore(contents) ==
  IF PriorityMarkers(contents) = {} THEN [int |-> 10]
  ELSE typeCastValue(FindField(collectionSchema, "page_priority_score"),
                     contents[CHOOSE i \in PriorityMarkers(contents) :
                                \A j \in PriorityMarkers(contents) : j <= i].text)

\* C10: every submitted document has page_priority_score 10 when the page
\* declared none, and else exactly the coerced value the page declared,
\* whatever that value is.
C10_PriorityScorePreserved ==
  \A r \in Runs : \A i \in DOMAIN history[r] :
    (history[r][i].ev = "call" /\ history[r][i].req.op = "documents.create") =>
      history[r][i].req.body["page_priority_score"] =
        DeclaredPriorityScore(htmlFiles[history[r][i].file].contents)

\* the texts of the marker elements of a page that name a field, in
\* document order
RECURSIVE TextsNamed(_, _)
TextsNamed(contents, name) ==
  IF contents = <<>> THEN <<>>
  ELSE IF Head(contents).name = name
    THEN <<Head(contents).text>> \o TextsNamed(Tail(contents), name)
  ELSE TextsNamed(Tail(contents), name)

IsArrayField(fieldDefinition) == Includes(fieldDefinition.type, <<"[", "]">>)

CastAll(fieldDefinition, texts) ==
  [k \in 1..Len(texts) |-> typeCastValue(fieldDefinition, texts[k])]

\* the document built for the file that run r is about to submit has, for
\* the field, a list of the coerced texts in order, or a value that is no
\* list
FieldShapeAsDeclared(r, fieldDefinition, texts) ==
  texts # <<>> =>
    IF IsArrayField(fieldDefinition)
      THEN /\ typesenseDocument[r][fieldDefinition.name] =
                [list |-> CastAll(fieldDefinition, texts)]
           /\ Len(typesenseDocument[r][fieldDefinition.name].list) = Len(texts)
      ELSE "list" \notin DOMAIN typesenseDocument[r][fieldDefinition.name]

\* C11: in the document built from a page, a field of an array type holds
\* the list of the coerced texts of the N marker elements naming it, in
\* document order and of length N; a field of another type holds one value
\* that is not a list.
C11_ArrayFieldsCollectInOrder ==
  \A r \in Runs :
    pc[r] = "documentCreate" =>
      \A i \in DOMAIN collectionSchema.fields :
        FieldShapeAsDeclared(r, collectionSchema.fields[i],
                             TextsNamed(htmlFiles[fileIndex[r]].contents,
                                        collectionSchema.fields[i].name))

\* a page with three elements for the array field years and two for the
\* scalar field title
C11_Witness ==
  \E r \in Runs :
    /\ pc[r] = "documentCreate"
    /\ "years" \in DOMAIN typesenseDocument[r]
    /\ typesenseDocument[r]["years"] = [list |-> <<[int |-> 7], NaN>>]
    /\ "title" \in DOMAIN typesenseDocument[r]
    /\ htmlFiles[fileIndex[r]].contents[1].name = "years"
    /\ htmlFiles[fileIndex[r]].contents[2].name = "title"
    /\ htmlFiles[fileIndex[r]].contents[3].name = "years"

\* the text is "false" in any mix of cases
IsFalseWord(text) ==
  /\ Len(text) = 5
  /\ text[1] \in {"f", "F"}
  /\ text[2] \in {"a", "A"}
  /\ text[3] \in {"l", "L"}
  /\ text[4] \in {"s", "S"}
  /\ text[5] \in {"e", "E"}

IsBlank(text) == \A i \in DOMAIN text : text[i] \in WhiteSpace

\* what the claim says a boolean field's text is coerced to
BoolAsClaimed(text) ==
  [bool |-> ~(IsFalseWord(text) \/ text = <<"0">> \/ IsBlank(text))]

LastOf(texts) == texts[Len(texts)]

\* C12: a boolean field's text is coerced to false when it is "false" in
\* any case, the literal "0", or empty after trimming, and to true
\* otherwise.
C12_BooleanCoercion ==
  \A r \in Runs :
    (pc[r] = "documentCreate"
       /\ TextsNamed(htmlFiles[fileIndex[r]].contents, "draft") # <<>>) =>
      typesenseDocument[r]["draft"] =
        BoolAsClaimed(LastOf(TextsNamed(htmlFiles[fileIndex[r]].contents, "draft")))

\* "False" was coerced to false
C12_Witness ==
  \E r \in Runs :
    /\ pc[r] = "documentCreate"
    /\ htmlFiles[fileIndex[r]].contents = << Marker("draft", <<"F", "a", "l", "s", "e">>) >>
    /\ typesenseDocument[r]["draft"] = [bool |-> FALSE]

\* the synonym upserts run r has issued so far, in the order it issued them
IsUpsertCall(e, r) == Is(e, r, "call", "synonyms.upsert")

UpsertCalls(r) == SelectSeq(history[r], LAMBDA e : IsUpsertCall(e, r))

\* the calls are, one by one, the upserts of the first rules of the list
UpsertsFollowList(calls, rules) ==
  /\ Len(calls) <= Len(rules)
  /\ \A i \in DOMAIN calls : calls[i].req.body = Terms(rules[i])

\* C13: a failing synonym upsert neither ends the run nor keeps later rules
\* from being tried: the upserts issued are those of the rules in the order
\* of the list, one for each rule once the run has gone on to the alias
\* upsert, and a run that has issued one never aborts.
C13_EveryRuleAttempted ==
  \A r \in Runs :
    /\ UpsertsFollowList(UpsertCalls(r), existingSynonyms[r])
    /\ pc[r] \in {"aliasUpsert", "collectionDelete", "done"} =>
         Len(UpsertCalls(r)) = Len(existingSynonyms[r])
    /\ Called(r, "synonyms.upsert") => pc[r] # "aborted"

\* the first of two upserts failed, the second was made and the run went on
\* to the alias upsert
C13_Witness ==
  \E r \in Runs :
    /\ pc[r] = "aliasUpsert"
    /\ Len(existingSynonyms[r]) = 2
    /\ \E i, j \in DOMAIN history[r] :
         /\ i < j
         /\ Is(history[r][i], r, "failed", "synonyms.upsert")
         /\ history[r][i].req.body.id = existingSynonyms[r][1].id
         /\ Is(history[r][j], r, "call", "synonyms.upsert")
         /\ history[r][j].req.body.id = existingSynonyms[r][2].id

\* run r was ended by a panic or by a rejected read
EndedEarly(r) ==
  \E i \in DOMAIN history[r] : history[r][i].run = r /\ history[r][i].ev \in {"panic", "reject"}

\* run r issued its alias upsert for its new collection and, later, the
\* delete of its old collection
SwappedThenDeleted(r) ==
  \E i, j \in DOMAIN history[r] :
    /\ i < j
    /\ Is(history[r][i], r, "call", "aliases.upsert")
    /\ history[r][i].req.body = newCollectionName[r]
    /\ Is(history[r][j], r, "call", "collections.delete")
    /\ history[r][j].req.on = oldCollectionName[r]

\* C14: after a failed retrieval of the old generation's synonyms the run
\* has no synonyms and still knows the old generation; it goes on to create
\* and populate the new generation, issues no synonym upsert, and a run that
\* finishes has upserted the alias and then deleted the old generation.
C14_SynonymFetchFailureProceeds ==
  \A r \in Runs :
    Happened(r, "failed", "synonyms.retrieve") =>
      /\ existingSynonyms[r] = <<>>
      /\ oldCollectionName[r] # NoName
      /\ oldCollectionName[r] = atBegin[r].aliases[collectionSchema.name]
      /\ ~Called(r, "synonyms.upsert")
      /\ pc[r] \in {"collectionCreate", "readFile", "documentCreate", "aliasUpsert",
                    "collectionDelete", "done", "aborted"}
      /\ pc[r] = "aborted" => EndedEarly(r)
      /\ pc[r] \in {"aliasUpsert", "collectionDelete", "done"} =>
           Happened(r, "ok", "collections.create") /\ Populated(r)
      /\ pc[r] = "done" => SwappedThenDeleted(r)

\* a run whose synonym retrieval failed finished: the alias names the new
\* generation and the old one is gone
C14_Witness ==
  \E r \in Runs :
    /\ pc[r] = "done"
    /\ Happened(r, "failed", "synonyms.retrieve")
    /\ Len(htmlFiles) = MaxFiles
    /\ aliases[collectionSchema.name] = newCollectionName[r]
    /\ oldCollectionName[r] \notin DOMAIN collections

\* the positions in the history of the collection deletes run r issued
DeleteCalls(r) == {i \in DOMAIN history[r] : Is(history[r][i], r, "call", "collections.delete")}

\* every delete of run r is for the collection the alias named when the run
\* began, and comes after the run's alias upsert was issued and answered
DeleteOnlyOldAfterSwapAttempt(r) ==
  \A i \in DeleteCalls(r) :
    /\ collectionSchema.name \in DOMAIN atBegin[r].aliases
    /\ history[r][i].req.on = atBegin[r].aliases[collectionSchema.name]
    /\ \E j \in 1..(i - 1) :
         /\ history[r][j].run = r
         /\ history[r][j].ev \in {"ok", "failed"}
         /\ history[r][j].req.op = "aliases.upsert"

\* a failed delete is reported with reporter.error and the run returns
DeleteFailureReported(r) ==
  Happened(r, "failed", "collections.delete") =>
    /\ Happened(r, "error", "collections.delete")
    /\ pc[r] = "done"

\* C15: a run issues at most one collection delete, only for the old
\* generation the alias lookup found and only after the alias upsert was
\* attempted; a failed delete is reported as an error, is not retried, and
\* the run returns with the alias naming the new generation.
C15_DeleteOnceAfterSwapAttempt ==
  \A r \in Runs :
    /\ Cardinality(DeleteCalls(r)) <= 1
    /\ DeleteOnlyOldAfterSwapAttempt(r)
    /\ DeleteFailureReported(r)
    /\ Happened(r, "failed", "collections.delete") =>
         /\ collectionSchema.name \in DOMAIN aliases
         /\ aliases[collectionSchema.name] = newCollectionName[r]

\* the calls of run r and their answers, in the order they happened
IsTraffic(e, r) == e.run = r /\ e.ev \in {"call", "ok", "failed"}

Traffic(r) == SelectSeq(history[r], LAMBDA e : IsTraffic(e, r))

\* calls and answers alternate: a call is sent only when every earlier call
\* has been answered, and an answer is the answer to the call before it
Alternates(t) ==
  \A i \in DOMAIN t :
    IF i % 2 = 1 THEN t[i].ev = "call"
                 ELSE t[i].ev \in {"ok", "failed"} /\ t[i].req = t[i - 1].req

IsDocumentCall(e, r) == Is(e, r, "call", "documents.create")

DocumentCalls(r) == SelectSeq(history[r], LAMBDA e : IsDocumentCall(e, r))

\* the documents were submitted in the order of the file list, none twice,
\* each made of the file at the position the loop was at
InFileOrder(d) ==
  /\ \A i, j \in DOMAIN d : i < j => d[i].file < d[j].file
  /\ \A i \in DOMAIN d :
       /\ d[i].file \in DOMAIN htmlFiles
       /\ d[i].req.body["page_path"] =
            [str |-> WwwPath(htmlFiles[d[i].file].path, rootDir)]

\* every document create for a file before position k was answered with ok
EarlierCreatesDone(r, k) ==
  \A i \in DOMAIN history[r] :
    (IsDocumentCall(history[r][i], r) /\ history[r][i].file < k) =>
      \E j \in DOMAIN history[r] :
        /\ j > i
        /\ Is(history[r][j], r, "ok", "documents.create")
        /\ history[r][j].file = history[r][i].file

\* C16: the calls of a run are strictly sequential: at most one call is
\* outstanding, no call is outstanding when a file is read and the creates
\* of all earlier files have completed then, and the documents are
\* submitted in the order of the file list, each file at most once.
C16_CallsSequential ==
  \A r \in Runs :
    /\ Alternates(Traffic(r))
    /\ Len(Traffic(r)) % 2 = (IF pending[r] = NoCall THEN 0 ELSE 1)
    /\ pc[r] = "readFile" => pending[r] = NoCall /\ EarlierCreatesDone(r, fileIndex[r])
    /\ pc[r] = "documentCreate" => EarlierCreatesDone(r, fileIndex[r])
    /\ InFileOrder(DocumentCalls(r))

\* a finished run that submitted a document for each of two files, one
\* after the other, among other calls
C16_Witness ==
  \E r \in Runs :
    /\ pc[r] = "done"
    /\ Len(DocumentCalls(r)) = 2
    /\ DocumentCalls(r)[1].file = 1
    /\ DocumentCalls(r)[2].file = 2
    /\ Len(Traffic(r)) >= 8

\* the generations of the base name the server holds
Generations == {n \in DOMAIN collections : n[1] = collectionSchema.name}

\* no alias names the collection and no run has asked for its deletion
Orphaned(n) ==
  /\ n \in DOMAIN collections
  /\ \A a \in DOMAIN aliases : aliases[a] # n
  /\ \A r \in Runs : \A i \in DeleteCalls(r) : history[r][i].req.on # n

\* every run has returned, and all of them found the same old generation
\* (or none): none looked the alias up after another had repointed it
FinishedOverlapped ==
  /\ \A r \in Runs : pc[r] = "done"
  /\ \A r, q \in Runs : oldCollectionName[r] = oldCollectionName[q]

\* C17: two runs that are not serialized can both create a new generation
\* and both upsert the alias; when both have finished after such an
\* interleaving, their two new generations both exist, so that there is
\* more than one generation of the base name, and one of the two is
\* orphaned: not named by the alias and deleted by neither run.
C17_ConcurrentRunsOrphan ==
  FinishedOverlapped =>
    /\ \A r \in Runs : Happened(r, "ok", "collections.create")
    /\ \A r \in Runs : Called(r, "aliases.upsert")
    /\ \A r, q \in Runs : r # q => newCollectionName[r] # newCollectionName[q]
    /\ \A r \in Runs : newCollectionName[r] \in Generations
    /\ Cardinality(Generations) > 1
    /\ \E r \in Runs : Orphaned(newCollectionName[r])

\* both runs found the live generation, created and populated their own and
\* repointed the alias with success; the old generation is gone, the alias
\* names the second run's generation and the first run's is left behind
C17_Witness ==
  /\ FinishedOverlapped
  /\ oldCollectionName[1] = OldGeneration
  /\ Len(htmlFiles) = MaxConcurrentFiles
  /\ \A r \in Runs : Happened(r, "ok", "aliases.upsert") /\ Populated(r)
  /\ Generations = {newCollectionName[1], newCollectionName[2]}
  /\ aliases[collectionSchema.name] = newCollectionName[2]
  /\ Orphaned(newCollectionName[1])

\* no run is under way, and r is the last run that began
LastFinished(r) ==
  /\ pc[r] = "done"
  /\ \A q \in Runs : pc[q] \in {"start", "done", "aborted"}
  /\ \A q \in Runs : q > r => pc[q] = "start"

\* the server holds one generation of the base name, the one run r created,
\* and the alias names it
OnlyGenerationOf(r) ==
  /\ Generations = {newCollectionName[r]}
  /\ collectionSchema.name \in DOMAIN aliases
  /\ aliases[collectionSchema.name] = newCollectionName[r]

Stage(r) ==
  CASE pc[r] = "start"                       -> 0
    [] pc[r] = "aliasRetrieve"               -> 1
    [] pc[r] = "synonymsRetrieve"            -> 2
    [] pc[r] = "collectionCreate"            -> 3
    [] pc[r] \in {"readFile", "documentCreate"} -> 4
    [] pc[r] = "synonymUpsert"               -> 5
    [] pc[r] = "aliasUpsert"                 -> 6
    [] pc[r] = "collectionDelete"            -> 7
    [] pc[r] \in {"done", "aborted"}         -> 8

Awaiting(r) == IF pending[r] = NoCall THEN 0 ELSE 1

\* how far the run is within its statement: the position of the loop it is
\* in, and whether the call of the statement has been sent
Within(r) ==
  CASE pc[r] = "readFile"       -> 4 * fileIndex[r]
    [] pc[r] = "documentCreate" -> 4 * fileIndex[r] + 2 + Awaiting(r)
    [] pc[r] = "synonymUpsert"  -> 2 * synonymIndex[r] + Awaiting(r)
    [] OTHER                    -> Awaiting(r)

\* more than Within can be
StageWidth == 4 * (Len(htmlFiles) + 2) + 8

Position(r) == Stage(r) * StageWidth + Within(r)

Finished(r) == pc[r] \in {"done", "aborted"}

Advances == \A r \in SingleRun : Position(r)' > Position(r)

AllFinished == \A r \in SingleRun : Finished(r)

\* C19: when every call is answered, a run over finitely many files and
\* synonym rules ends, returning after the delete step or aborted by a
\* fatal error, and every step takes it further through its statements and
\* loops: none is repeated.
C19_RunTerminates == [][Advances]_vars /\ <>AllFinished

\* a run over the longest file list and two synonym rules has returned
\* after deleting the old collection
C19_Witness ==
  \E r \in SingleRun :
    /\ pc[r] = "done"
    /\ Len(htmlFiles) = MaxFiles
    /\ Len(existingSynonyms[r]) = 2
    /\ Happened(r, "ok", "collections.delete")
    /\ Position(r) = 8 * StageWidth

====
